---- MODULE Spec2Model ----
(***************************************************************************)
(* Model of src/app.py: a Streamlit club-roster browser whose data store   *)
(* is a Google spreadsheet with the worksheets members, bands and          *)
(* performances.                                                           *)
(*                                                                         *)
(* Text is modelled as a sequence of one-character strings so that         *)
(* substring search (pandas str.contains) and concatenation are computed,  *)
(* not assumed.  The module is ASCII, so the Japanese literals of the      *)
(* source are transliterated:                                              *)
(*    "不明" -> fumei     "全年度" -> zennendo     "すべて" -> subete        *)
(*    "春コン" -> haru    "新歓" -> shin           "軽音楽部" -> keion       *)
(* A missing value produced by a left merge (pandas NaN) is NaNStr in a    *)
(* text column, NaNNum in a numeric column and NaNBool in a bool column.   *)
(***************************************************************************)
EXTENDS Integers, Sequences, FiniteSets, TLC

VARIABLES
    sheets,     \* the workbook: worksheet name -> sequence of data rows
    issued,     \* history: worksheet name -> the ids inserts have assigned so far
    cache,      \* st.cache_data entry of load_all_data: << >> or <<frames>>
    temp_mems,  \* st.session_state.temp_mems, the pending member list
    filters,    \* the search widgets' values of the current script run
    last,       \* what the last handler did: its name, arguments and result
    pc,         \* SpecConc: each session's position inside add_row / bulk_insert
    loc         \* SpecConc: each session's local variables (new_id, rows)

vars == <<sheets, issued, cache, temp_mems, filters, last, pc, loc>>

(***************************************************************************)
(* Bounds of the model.                                                    *)
(***************************************************************************)
MaxRows == 2        \* rows a worksheet may hold before inserts are disabled
MaxId == 3          \* largest id an insert may assign
MaxPending == 2     \* entries the pending member list may hold

(***************************************************************************)
(* Text.                                                                   *)
(***************************************************************************)
EmptyStr == << >>
NaNStr == <<"NaN">>
NaNNum == -1
NaNBool == "NaN"
PyTrue == "True"
PyFalse == "False"

Vo == <<"V", "o">>
Gt == <<"G", "t">>
Ba == <<"B", "a">>
Dr == <<"D", "r">>
Key == <<"K", "e", "y">>
Other == <<"O", "t", "h", "e", "r">>
GtVo == Gt \o Vo
BaVo == Ba \o Vo
KeyVo == Key \o Vo
PARTS == <<Vo, Gt, Ba, Dr, Key, GtVo, BaVo, KeyVo, Other>>

haru == <<"h", "a", "r", "u">>
shin == <<"s", "h", "i", "n">>
keion == <<"k", "e", "i", "o", "n">>
fumei == <<"f", "u", "m", "e", "i">>
zennendo == <<"z", "e", "n", "n", "e", "n", "d", "o">>
subete == <<"s", "u", "b", "e", "t", "e">>
Comma == <<",">>
CellTRUE == <<"T", "R", "U", "E">>
CellFALSE == <<"F", "A", "L", "S", "E">>

Range(s) == {s[i] : i \in DOMAIN s}

\* s contains p as a contiguous substring (str.contains on a literal pattern)
Contains(s, p) ==
    \E i \in 1..(Len(s) + 1) :
        /\ i + Len(p) - 1 <= Len(s)
        /\ SubSeq(s, i, i + Len(p) - 1) = p

\* sep.join(items)
RECURSIVE Join(_, _)
Join(items, sep) ==
    IF items = << >> THEN EmptyStr
    ELSE IF Len(items) = 1 THEN items[1]
    ELSE items[1] \o sep \o Join(Tail(items), sep)

UpChar(c) ==
    CASE c = "t" -> "T" [] c = "r" -> "R" [] c = "u" -> "U" [] c = "e" -> "E"
      [] c = "f" -> "F" [] c = "a" -> "A" [] c = "l" -> "L" [] c = "s" -> "S"
      [] OTHER -> c

Upper(s) == [i \in DOMAIN s |-> UpChar(s[i])]

(***************************************************************************)
(* SheetManager: conversions and id allocation.                            *)
(***************************************************************************)
_bool_to_str(val) == IF val THEN CellTRUE ELSE CellFALSE

_str_to_bool(val) == IF Upper(val) = CellTRUE THEN PyTrue ELSE PyFalse

\* str(i).isdigit() for an id cell: the cells the program writes are integers,
\* and the decimal text of an integer is all digits iff it is not negative.
IsDigit(i) == i >= 0

SetMax(S) == CHOOSE m \in S : \A x \in S : x <= m

\* a wrong get_next_id: the number of data rows plus one
get_next_id_count(ws) == Len(ws) + 1

get_next_id(ws) ==
    LET ids == [i \in DOMAIN ws |-> ws[i].id]
        valid_ids == {ids[i] : i \in {j \in DOMAIN ids : IsDigit(ids[j])}}
    IN IF valid_ids # {} THEN SetMax(valid_ids) + 1 ELSE 1

Header(sheet_name) ==
    CASE sheet_name = "members" ->
            {"id", "name", "year", "part", "sub_parts", "circle", "role", "is_uso"}
      [] sheet_name = "bands" ->
            {"id", "year", "event_type", "band_name", "artist_name", "song_name",
             "description", "is_uso"}
      [] sheet_name = "performances" -> {"id", "band_id", "member_id", "part"}

\* add_row's row_values: the dict's value under each header, "" when absent,
\* a bool written as TRUE / FALSE (the only bool of the dicts is is_uso)
RowValues(sheet_name, data_dict, new_id) ==
    [h \in Header(sheet_name) |->
        IF h = "id" THEN new_id
        ELSE IF h \notin DOMAIN data_dict THEN EmptyStr
        ELSE IF h = "is_uso" THEN _bool_to_str(data_dict[h])
        ELSE data_dict[h]]

\* the worksheet after add_row(sheet_name, data_dict)
add_row(ws, sheet_name, data_dict) ==
    Append(ws, RowValues(sheet_name, data_dict, get_next_id(ws)))

\* ws.find(str(target_id), in_column=1): the first row whose id cell is target_id
\* (0 when there is none)
Find(ws, target_id) ==
    IF \E i \in DOMAIN ws : ws[i].id = target_id
    THEN CHOOSE i \in DOMAIN ws :
            /\ ws[i].id = target_id
            /\ \A j \in DOMAIN ws : ws[j].id = target_id => i <= j
    ELSE 0

RemoveAt(s, i) == SubSeq(s, 1, i - 1) \o SubSeq(s, i + 1, Len(s))

\* a wrong delete_row: the id taken for the position of the row
delete_row_at(ws, target_id) ==
    IF target_id \in DOMAIN ws THEN RemoveAt(ws, target_id) ELSE ws

\* the worksheet after delete_row(sheet_name, target_id)
delete_row(ws, target_id) ==
    IF Find(ws, target_id) # 0 THEN RemoveAt(ws, Find(ws, target_id)) ELSE ws

\* the rows bulk_insert_performances appends: ids start_id, start_id + 1, ...
BulkRows(rows_list, start_id) ==
    [i \in DOMAIN rows_list |->
        [h \in Header("performances") |->
            IF h = "id" THEN start_id + (i - 1)
            ELSE IF h \in DOMAIN rows_list[i] THEN rows_list[i][h]
            ELSE EmptyStr]]

bulk_insert_performances(ws, rows_list) ==
    IF rows_list = << >> THEN ws
    ELSE ws \o BulkRows(rows_list, get_next_id(ws))

\* update_row's loop stopped after the first k items of update_dict
\* (k = Len(keys): the loop ran to its end)
UpdatedRow(row, keys, update_dict, k) ==
    [h \in DOMAIN row |->
        IF \E i \in 1..k : keys[i] = h
        THEN IF h = "is_uso" THEN _bool_to_str(update_dict[h]) ELSE update_dict[h]
        ELSE row[h]]

update_row(ws, target_id, keys, update_dict, k) ==
    IF Find(ws, target_id) = 0 THEN ws
    ELSE [ws EXCEPT ![Find(ws, target_id)] =
            UpdatedRow(ws[Find(ws, target_id)], keys, update_dict, k)]

(***************************************************************************)
(* load_all_data and clean_df.  A frame is the sequence of its rows; the   *)
(* frame of a worksheet without data rows is the empty frame, which has no *)
(* columns.  Numeric cells are kept as integers in the workbook, so        *)
(* pd.to_numeric(...).fillna(0).astype(int) leaves them as they are.       *)
(***************************************************************************)
NoCache == << >>

EmptyFrames == [mem |-> << >>, band |-> << >>, perf |-> << >>]

\* clean_df on a frame that has an is_uso column (members, bands)
clean_df(raw) == [i \in DOMAIN raw |-> [raw[i] EXCEPT !.is_uso = _str_to_bool(@)]]

\* clean_df on a frame without is_uso column (performances): the column is added
clean_df_perf(raw) == [i \in DOMAIN raw |-> raw[i] @@ [is_uso |-> PyFalse]]

\* what load_all_data computes on a cache miss; ok = FALSE: the read raised
ReadAll(wb, ok) ==
    IF ok
    THEN [mem |-> clean_df(wb["members"]),
          band |-> clean_df(wb["bands"]),
          perf |-> clean_df_perf(wb["performances"])]
    ELSE EmptyFrames

\* load_all_data under @st.cache_data: the cached value when there is one
load_all_data(c, wb, ok) == IF c # NoCache THEN c[1] ELSE ReadAll(wb, ok)

(***************************************************************************)
(* format_year.                                                            *)
(***************************************************************************)
DigitChar(d) == <<"0", "1", "2", "3", "4", "5", "6", "7", "8", "9">>[d + 1]

RECURSIVE IntToStr(_)
IntToStr(n) ==
    IF n < 0 THEN <<"-">> \o IntToStr(0 - n)
    ELSE IF n < 10 THEN <<DigitChar(n)>>
    ELSE IntToStr(n \div 10) \o <<DigitChar(n % 10)>>

format_year(year_int) ==
    IF year_int = 0 THEN zennendo
    ELSE LET s == IntToStr(year_int)
         IN IF Len(s) >= 2 THEN SubSeq(s, Len(s) - 1, Len(s)) ELSE s

(***************************************************************************)
(* main, step 3: the join of performances with members and bands.          *)
(***************************************************************************)
RECURSIVE Flatten(_)
Flatten(ss) == IF ss = << >> THEN << >> ELSE Head(ss) \o Flatten(Tail(ss))

\* Series.fillna(v) and Series.astype(str) on one value
FillNa(x, nan, v) == IF x = nan THEN v ELSE x
AsStr(x) == IF x = NaNStr THEN <<"n", "a", "n">> ELSE x

mem_ren(m) ==
    [id_y |-> m.id, name_m |-> m.name, year_m |-> m.year, part_m |-> m.part,
     sub_parts_m |-> m.sub_parts, circle |-> m.circle, role |-> m.role,
     is_uso_m |-> m.is_uso]

NaNMember ==
    [id_y |-> NaNNum, name_m |-> NaNStr, year_m |-> NaNNum, part_m |-> NaNStr,
     sub_parts_m |-> NaNStr, circle |-> NaNStr, role |-> NaNStr,
     is_uso_m |-> NaNBool]

band_ren(b) ==
    [band_id_key |-> b.id, year_b |-> b.year, event_type |-> b.event_type,
     band_name |-> b.band_name, artist_name |-> b.artist_name,
     song_name |-> b.song_name, description |-> b.description,
     is_uso_b |-> b.is_uso]

NaNBand ==
    [band_id_key |-> NaNNum, year_b |-> NaNNum, event_type |-> NaNStr,
     band_name |-> NaNStr, artist_name |-> NaNStr, song_name |-> NaNStr,
     description |-> NaNStr, is_uso_b |-> NaNBool]

perf_ren(p) ==
    [id_x |-> p.id, band_id |-> p.band_id, member_id |-> p.member_id,
     part |-> p.part, is_uso |-> p.is_uso]

\* pd.merge(left, right, how='left'): the right rows matching one left row, in
\* the right frame's order; one all-NaN right side when none matches
MergeMember(l, df_mem) ==
    LET ms == SelectSeq(df_mem, LAMBDA m : m.id = l.member_id)
    IN IF ms = << >> THEN <<l @@ NaNMember>>
       ELSE [i \in DOMAIN ms |-> l @@ mem_ren(ms[i])]

MergeBand(l, df_band) ==
    LET bs == SelectSeq(df_band, LAMBDA b : b.id = l.band_id)
    IN IF bs = << >> THEN <<l @@ NaNBand>>
       ELSE [i \in DOMAIN bs |-> l @@ band_ren(bs[i])]

\* lines 470-479: the fillna calls, year_str and mem_disp
FillRow(r) ==
    LET name_m == FillNa(r.name_m, NaNStr, fumei)
        part == FillNa(r.part, NaNStr, <<"?">>)
        year_str == format_year(FillNa(r.year_m, NaNNum, 0))
    IN [r EXCEPT !.name_m = name_m,
                 !.part = part,
                 !.artist_name = FillNa(@, NaNStr, fumei),
                 !.song_name = FillNa(@, NaNStr, fumei),
                 !.description = FillNa(@, NaNStr, EmptyStr)]
       @@ [year_str |-> year_str,
           mem_disp |-> year_str \o AsStr(name_m) \o <<"(">> \o AsStr(part) \o <<")">>]

\* df_full of main
Enrich(df_mem, df_band, df_perf) ==
    IF df_band # << >> /\ df_perf # << >> /\ df_mem # << >>
    THEN LET m1 == Flatten([i \in DOMAIN df_perf |->
                                MergeMember(perf_ren(df_perf[i]), df_mem)])
             m2 == Flatten([i \in DOMAIN m1 |-> MergeBand(m1[i], df_band)])
         IN [i \in DOMAIN m2 |-> FillRow(m2[i])]
    ELSE << >>

(***************************************************************************)
(* main, the centre column: the filter chain over df_full.                 *)
(***************************************************************************)
\* a wrong fictional filter: the checkbox is ignored
UsoFilter_off(view, f_uso) == view

UsoFilter(view, f_uso) ==
    IF ~f_uso THEN SelectSeq(view, LAMBDA r : r.is_uso_b # PyTrue) ELSE view

YearFilter(view, f_year) ==
    IF f_year > 0 THEN SelectSeq(view, LAMBDA r : r.year_b = f_year) ELSE view

EventFilter(view, f_event) ==
    IF f_event # subete THEN SelectSeq(view, LAMBDA r : r.event_type = f_event)
    ELSE view

KeywordFilter(view, f_kw) ==
    IF f_kw # EmptyStr
    THEN SelectSeq(view, LAMBDA r : \/ Contains(AsStr(r.artist_name), f_kw)
                                    \/ Contains(AsStr(r.song_name), f_kw)
                                    \/ Contains(AsStr(r.description), f_kw))
    ELSE view

\* a wrong part filter: the rows that match, not the bands that hold a match
PartFilter_rows(view, f_part) ==
    IF f_part # subete
    THEN SelectSeq(view, LAMBDA r : \/ r.part_m = f_part
                                    \/ Contains(AsStr(r.sub_parts_m), f_part)
                                    \/ r.part = f_part)
    ELSE view

\* the row test of the part filter (lines 509-511)
PartMatch(r, f_part) ==
    \/ r.part_m = f_part
    \/ Contains(AsStr(r.sub_parts_m), f_part)
    \/ r.part = f_part

PartFilter(view, f_part) ==
    IF f_part # subete
    THEN LET t_ids == {view[i].band_id :
                          i \in {j \in DOMAIN view : PartMatch(view[j], f_part)}}
         IN SelectSeq(view, LAMBDA r : r.band_id \in t_ids)
    ELSE view

CircleFilter(view, f_circle) ==
    IF f_circle # subete
    THEN LET target_c == IF f_circle = EmptyStr THEN EmptyStr ELSE f_circle
             t_ids_c == {view[i].band_id :
                            i \in {j \in DOMAIN view : view[j].circle = target_c}}
         IN SelectSeq(view, LAMBDA r : r.band_id \in t_ids_c)
    ELSE view

\* view_df of main after lines 495-518
FilterChain(full, f) ==
    CircleFilter(
        PartFilter(
            KeywordFilter(
                EventFilter(
                    YearFilter(UsoFilter(full, f.f_uso), f.f_year),
                    f.f_event),
                f.f_kw),
            f.f_part),
        f.f_circle)

\* the search widgets' initial values (render_search_column)
DefaultFilters ==
    [f_uso |-> FALSE, f_year |-> 0, f_event |-> subete, f_kw |-> EmptyStr,
     f_part |-> subete, f_circle |-> subete]

\* df_full and view_df of a run that starts in the current state; ok says
\* whether the run's read of the workbook, if it makes one, succeeds
Loaded(ok) == load_all_data(cache, sheets, ok)
df_full(ok) == Enrich(Loaded(ok).mem, Loaded(ok).band, Loaded(ok).perf)
view_df(ok) == FilterChain(df_full(ok), filters)

(***************************************************************************)
(* The script runs.  Every user interaction runs main once: it loads the   *)
(* frames (load_all_data, through the cache), renders the centre column    *)
(* from them and the search widgets, and then runs the handler of the      *)
(* pressed button.  st.rerun() ends the run; the run it starts is the next *)
(* action.  ok says whether a read of the workbook, if the run makes one,  *)
(* succeeds.                                                               *)
(***************************************************************************)
Tables == {"members", "bands", "performances"}

ADMIN_PASSWORD == <<"r", "o", "c", "k">>

\* the ids of the rows of new that were appended to old
AppendedIds(old, new) == {new[i].id : i \in (Len(old) + 1)..Len(new)}

\* the history of assigned ids after the workbook went from wb to wb2
Issue(wb, wb2) ==
    [t \in Tables |->
        IF Len(wb2[t]) > Len(wb[t]) THEN issued[t] \cup AppendedIds(wb[t], wb2[t])
        ELSE issued[t]]

\* the model's bounds allow one more row with the next id in worksheet t
RoomFor(t, n) ==
    /\ Len(sheets[t]) + n <= MaxRows
    /\ get_next_id(sheets[t]) + (n - 1) <= MaxId

\* a run that did not change the workbook: the cache holds what it loaded
NoMutation(d) ==
    /\ cache' = <<d>>
    /\ UNCHANGED <<sheets, issued>>

\* a call that changed the workbook to wb2 and reached clear_cache
Mutation(wb2) ==
    /\ sheets' = wb2
    /\ issued' = Issue(sheets, wb2)
    /\ cache' = NoCache

\* SheetManager.update_row(t, target_id, update_dict); keys are update_dict's
\* keys in order and k is the number of items written when the loop ended
\* (k < Len(keys): update_cell raised, and clear_cache was not reached).
\* c is the cache entry at the time of the call.
UpdateRowCall(c, t, opname, target_id, keys, update_dict, k) ==
    IF Find(sheets[t], target_id) = 0
    THEN /\ cache' = c
         /\ UNCHANGED <<sheets, issued>>
         /\ last' = [op |-> opname, sheet |-> t, ret |-> "False", id |-> target_id]
    ELSE IF k = Len(keys)
    THEN /\ Mutation([sheets EXCEPT
                 ![t] = update_row(@, target_id, keys, update_dict, k)])
         /\ last' = [op |-> opname, sheet |-> t, ret |-> "True", id |-> target_id]
    ELSE /\ sheets' = [sheets EXCEPT
                 ![t] = update_row(@, target_id, keys, update_dict, k)]
         /\ cache' = c
         /\ issued' = issued
         /\ last' = [op |-> opname, sheet |-> t, ret |-> "raised", id |-> target_id]

\* SheetManager.delete_row(t, target_id)
DeleteRowCall(c, t, opname, target_id) ==
    IF Find(sheets[t], target_id) # 0
    THEN /\ Mutation([sheets EXCEPT ![t] = delete_row(@, target_id)])
         /\ last' = [op |-> opname, sheet |-> t, ret |-> "True", id |-> target_id]
    ELSE /\ cache' = c
         /\ UNCHANGED <<sheets, issued>>
         /\ last' = [op |-> opname, sheet |-> t, ret |-> "False", id |-> target_id]

\* render_register_mode, lines 298-329: the member form's save button
MemberSave(name, year, part, sub, circle, role, is_uso, ok) ==
    LET d == load_all_data(cache, sheets, ok)
        data_dict == [name |-> name, year |-> year, part |-> part,
                      sub_parts |-> Join(sub, Comma), circle |-> circle,
                      role |-> role, is_uso |-> is_uso]
        dup == SelectSeq(d.mem, LAMBDA m : m.name = name /\ m.year = year)
    IN /\ UNCHANGED <<temp_mems, filters, pc, loc>>
       /\ IF name = EmptyStr
          THEN /\ NoMutation(d)
               /\ last' = [op |-> "member_save", ret |-> "error"]
          ELSE IF d.mem = << >>
          THEN \* df_mem['name'] on a frame without columns raises KeyError
               /\ NoMutation(d)
               /\ last' = [op |-> "member_save", ret |-> "KeyError"]
          ELSE /\ RoomFor("members", 1)
               /\ Mutation([sheets EXCEPT
                       !["members"] = add_row(@, "members", data_dict)])
               /\ last' = [op |-> "member_save",
                           ret |-> IF dup # << >> THEN "warned" ELSE "saved",
                           new_id |-> get_next_id(sheets["members"])]

\* the option label of a member in the band form (line 249)
opt_label(m) == format_year(m.year) \o m.name \o <<"(">> \o m.part \o <<")">>

\* dict(zip(keys, values))[key]: the value of the last pair with that key
LastWith(frame, KeyOf(_), key) ==
    frame[CHOOSE i \in DOMAIN frame :
            /\ KeyOf(frame[i]) = key
            /\ \A j \in DOMAIN frame : KeyOf(frame[j]) = key => j <= i]

\* sel_label.split("(")[0]
BeforeParen(s) ==
    IF \E i \in DOMAIN s : s[i] = "("
    THEN SubSeq(s, 1, (CHOOSE i \in DOMAIN s :
                          /\ s[i] = "("
                          /\ \A j \in 1..(i - 1) : s[j] # "(") - 1)
    ELSE s

\* a wrong "add to list": the list is searched for the (member, part) pair
AddToList_pairs(i, sel_part, ok) ==
    LET d == load_all_data(cache, sheets, ok)
    IN /\ d.mem # << >>
       /\ i \in DOMAIN d.mem
       /\ LET sel_label == opt_label(d.mem[i])
              sel_id == LastWith(d.mem, opt_label, sel_label).id
              current == {<<temp_mems[j].id, temp_mems[j].part>> : j \in DOMAIN temp_mems}
          IN IF <<sel_id, sel_part>> \in current
             THEN /\ temp_mems' = temp_mems
                  /\ last' = [op |-> "add_to_list", ret |-> "error"]
             ELSE /\ Len(temp_mems) < MaxPending
                  /\ temp_mems' = Append(temp_mems,
                         [id |-> sel_id, name |-> BeforeParen(sel_label),
                          part |-> sel_part])
                  /\ last' = [op |-> "add_to_list", ret |-> "added"]
       /\ NoMutation(d)
       /\ UNCHANGED <<filters, pc, loc>>

\* lines 265-271: the "add to list" button; i is the row whose label is selected
AddToList(i, sel_part, ok) ==
    LET d == load_all_data(cache, sheets, ok)
    IN /\ d.mem # << >>
       /\ i \in DOMAIN d.mem
       /\ LET sel_label == opt_label(d.mem[i])
              sel_id == LastWith(d.mem, opt_label, sel_label).id
              current_ids == {temp_mems[j].id : j \in DOMAIN temp_mems}
          IN IF sel_id \in current_ids
             THEN /\ temp_mems' = temp_mems
                  /\ last' = [op |-> "add_to_list", ret |-> "error"]
             ELSE /\ Len(temp_mems) < MaxPending
                  /\ temp_mems' = Append(temp_mems,
                         [id |-> sel_id, name |-> BeforeParen(sel_label),
                          part |-> sel_part])
                  /\ last' = [op |-> "add_to_list", ret |-> "added"]
       /\ NoMutation(d)
       /\ UNCHANGED <<filters, pc, loc>>

\* lines 273-274: the "clear list" button
ClearList(ok) ==
    LET d == load_all_data(cache, sheets, ok)
    IN /\ d.mem # << >>
       /\ temp_mems' = << >>
       /\ last' = [op |-> "clear_list", ret |-> "cleared"]
       /\ NoMutation(d)
       /\ UNCHANGED <<filters, pc, loc>>

\* line 291: the Performance dicts of a band save
Perfs(bid, pending) ==
    [j \in DOMAIN pending |->
        [band_id |-> bid, member_id |-> pending[j].id, part |-> pending[j].part]]

\* a wrong band save: the band id read after the band row was appended
BandSaved_late_id(wb, band_dict, pending) ==
    LET bands2 == add_row(wb["bands"], "bands", band_dict)
    IN [wb EXCEPT
          !["bands"] = bands2,
          !["performances"] =
              bulk_insert_performances(@, Perfs(get_next_id(bands2), pending))]

\* the workbook after the two store calls of a band save (lines 286-292)
BandSaved(wb, band_dict, pending) ==
    LET bid == get_next_id(wb["bands"])
    IN [wb EXCEPT
          !["bands"] = add_row(@, "bands", band_dict),
          !["performances"] = bulk_insert_performances(@, Perfs(bid, pending))]

\* lines 277-296: the band form's save button
BandSave(r_year, r_event, r_artist, r_song, r_desc, is_uso, ok) ==
    LET d == load_all_data(cache, sheets, ok)
        band_dict == [year |-> r_year, event_type |-> r_event,
                      band_name |-> EmptyStr, artist_name |-> r_artist,
                      song_name |-> r_song, description |-> r_desc,
                      is_uso |-> is_uso]
    IN /\ d.mem # << >>
       /\ temp_mems # << >>
       /\ UNCHANGED <<filters, pc, loc>>
       /\ IF r_artist = EmptyStr
          THEN /\ NoMutation(d)
               /\ temp_mems' = temp_mems
               /\ last' = [op |-> "band_save", ret |-> "error"]
          ELSE /\ RoomFor("bands", 1)
               /\ RoomFor("performances", Len(temp_mems))
               /\ Mutation(BandSaved(sheets, band_dict, temp_mems))
               /\ temp_mems' = << >>
               /\ last' = [op |-> "band_save", ret |-> "saved",
                           new_id |-> get_next_id(sheets["bands"])]

(***************************************************************************)
(* render_edit_mode: the admin menu, behind the password.                  *)
(***************************************************************************)
MemberKeys == <<"name", "year", "part", "sub_parts", "circle", "role", "is_uso">>
BandKeys == <<"artist_name", "song_name", "description", "is_uso">>

\* the key of a member in the edit menu's select box (line 341)
edit_label(r) == format_year(r.year) \o <<" ">> \o r.name

\* the key of a band in the edit menu's select box (lines 395-396)
band_label(r) ==
    LET disp == IF r.artist_name # EmptyStr THEN r.artist_name ELSE <<"?">>
    IN <<"[">> \o format_year(r.year) \o r.event_type \o <<"]", " ">> \o disp
       \o <<" ", "/", " ">> \o r.song_name

\* opts of line 341: the frame is walked by (year, id) descending, and a later
\* row replaces an earlier one with the same key, so a key selects the row of
\* least (year, id)
MemberOpt(df_mem, i) ==
    \A j \in DOMAIN df_mem :
        edit_label(df_mem[j]) = edit_label(df_mem[i]) =>
            \/ df_mem[i].year < df_mem[j].year
            \/ df_mem[i].year = df_mem[j].year /\ df_mem[i].id <= df_mem[j].id

\* b_map of lines 393-397: the last row of the frame with the key
BandOpt(df_band, i) ==
    \A j \in DOMAIN df_band :
        band_label(df_band[j]) = band_label(df_band[i]) => j <= i

\* an update_row call of the edit menu, in a run that loaded the frames d
EditUpdate(d, t, opname, target_id, keys, update_dict, k) ==
    /\ UNCHANGED <<temp_mems, filters, pc, loc>>
    /\ UpdateRowCall(<<d>>, t, opname, target_id, keys, update_dict, k)

\* a delete_row call of the edit menu, in a run that loaded the frames d
EditDelete(d, t, opname, target_id) ==
    /\ UNCHANGED <<temp_mems, filters, pc, loc>>
    /\ DeleteRowCall(<<d>>, t, opname, target_id)

\* lines 372-380: the member update button
MemberUpdate(password, i, name, year, part, sub, circle, role, is_uso, k, ok) ==
    LET d == load_all_data(cache, sheets, ok)
    IN /\ password = ADMIN_PASSWORD
       /\ d.mem # << >>
       /\ i \in DOMAIN d.mem
       /\ MemberOpt(d.mem, i)
       /\ k \in 0..Len(MemberKeys)
       /\ EditUpdate(d, "members", "member_update", d.mem[i].id, MemberKeys,
             [name |-> name, year |-> year, part |-> part,
              sub_parts |-> Join(sub, Comma), circle |-> circle, role |-> role,
              is_uso |-> is_uso], k)

\* lines 382-386: the member delete button
MemberDelete(password, i, ok) ==
    LET d == load_all_data(cache, sheets, ok)
    IN /\ password = ADMIN_PASSWORD
       /\ d.mem # << >>
       /\ i \in DOMAIN d.mem
       /\ MemberOpt(d.mem, i)
       /\ EditDelete(d, "members", "member_delete", d.mem[i].id)

\* lines 412-419: the band update button
BandUpdate(password, i, art, song, desc, is_uso, k, ok) ==
    LET d == load_all_data(cache, sheets, ok)
    IN /\ password = ADMIN_PASSWORD
       /\ d.band # << >>
       /\ i \in DOMAIN d.band
       /\ BandOpt(d.band, i)
       /\ k \in 0..Len(BandKeys)
       /\ EditUpdate(d, "bands", "band_update", d.band[i].id, BandKeys,
             [artist_name |-> art, song_name |-> song, description |-> desc,
              is_uso |-> is_uso], k)

\* lines 421-425: the band delete button
BandDelete(password, i, ok) ==
    LET d == load_all_data(cache, sheets, ok)
    IN /\ password = ADMIN_PASSWORD
       /\ d.band # << >>
       /\ i \in DOMAIN d.band
       /\ BandOpt(d.band, i)
       /\ EditDelete(d, "bands", "band_delete", d.band[i].id)

\* a run started by a change of the search widgets (render_search_column)
Search(f, ok) ==
    LET d == load_all_data(cache, sheets, ok)
    IN /\ filters' = f
       /\ NoMutation(d)
       /\ last' = [op |-> "search", ret |-> "shown"]
       /\ UNCHANGED <<temp_mems, pc, loc>>

\* @st.cache_data(ttl=60): the entry expires
TtlExpire ==
    /\ cache # NoCache
    /\ cache' = NoCache
    /\ last' = [op |-> "ttl_expire", ret |-> "none"]
    /\ UNCHANGED <<sheets, issued, temp_mems, filters, pc, loc>>

(***************************************************************************)
(* The initial state.  The workbook is made by hand before the app runs:   *)
(* its worksheets hold their header rows, and the members worksheet holds  *)
(* either no data row or one member entered with id 1.  The cache is empty *)
(* and the session fresh.                                                  *)
(***************************************************************************)
Sessions == {1, 2}

NameA == <<"A">>
NameB == <<"B">>
ArtistX == <<"X">>
ArtistZ == <<"Z">>
SongY == <<"Y">>

SeedMember ==
    [id |-> 1, name |-> NameA, year |-> 2023, part |-> Gt, sub_parts |-> EmptyStr,
     circle |-> EmptyStr, role |-> EmptyStr, is_uso |-> CellFALSE]

Init ==
    /\ \E seed \in {<< >>, <<SeedMember>>} :
          /\ sheets = [t \in Tables |-> IF t = "members" THEN seed ELSE << >>]
          /\ issued = [t \in Tables |->
                          IF t = "members" THEN {seed[i].id : i \in DOMAIN seed}
                          ELSE {}]
    /\ cache = NoCache
    /\ temp_mems = << >>
    /\ filters = DefaultFilters
    /\ last = [op |-> "start", ret |-> "none"]
    /\ pc = [s \in Sessions |-> "idle"]
    /\ loc = [s \in Sessions |-> << >>]

(***************************************************************************)
(* Spec: one session, every handler a step.  The inputs are drawn from     *)
(* small sets.                                                             *)
(***************************************************************************)
Passwords == {ADMIN_PASSWORD, <<"x">>}

Names == {EmptyStr, NameA}
Years == {2023}
Artists == {EmptyStr, ArtistX}

Register ==
    \/ \E name \in Names, year \in Years, ok \in BOOLEAN :
          MemberSave(name, year, Gt, << >>, EmptyStr, EmptyStr, FALSE, ok)
    \/ \E i \in 1..MaxRows, sel_part \in {Gt}, ok \in BOOLEAN :
          AddToList(i, sel_part, ok)
    \/ \E ok \in BOOLEAN : ClearList(ok)
    \/ \E r_artist \in Artists, r_year \in Years, ok \in BOOLEAN :
          BandSave(r_year, haru, r_artist, SongY, EmptyStr, FALSE, ok)

Edit ==
    \/ \E password \in Passwords, i \in 1..MaxRows, name \in {NameA},
          k \in {0, 1, Len(MemberKeys)}, ok \in BOOLEAN :
          MemberUpdate(password, i, name, 2023, Gt, << >>, EmptyStr, EmptyStr,
                       FALSE, k, ok)
    \/ \E password \in Passwords, i \in 1..MaxRows, ok \in BOOLEAN :
          MemberDelete(password, i, ok)
    \/ \E password \in Passwords, i \in 1..MaxRows, art \in {ArtistZ},
          k \in {0, 1, Len(BandKeys)}, ok \in BOOLEAN :
          BandUpdate(password, i, art, SongY, EmptyStr, FALSE, k, ok)
    \/ \E password \in Passwords, i \in 1..MaxRows, ok \in BOOLEAN :
          BandDelete(password, i, ok)

Next == Register \/ Edit \/ TtlExpire

Spec == Init /\ [][Next]_vars

(***************************************************************************)
(* SpecRegister: the session of Spec without the two update buttons.       *)
(***************************************************************************)
Delete ==
    \/ \E password \in Passwords, i \in 1..MaxRows, ok \in BOOLEAN :
          MemberDelete(password, i, ok)
    \/ \E password \in Passwords, i \in 1..MaxRows, ok \in BOOLEAN :
          BandDelete(password, i, ok)

NextRegister == Register \/ Delete \/ TtlExpire

SpecRegister == Init /\ [][NextRegister]_vars

(***************************************************************************)
(* SpecApi: the inserting and deleting methods of SheetManager called one  *)
(* at a time with arguments drawn from small sets, whatever the caller.    *)
(* Nothing is read through the cache here, so it stays empty.              *)
(***************************************************************************)
MemberDict ==
    [name |-> NameA, year |-> 2023, part |-> Gt, sub_parts |-> EmptyStr,
     circle |-> EmptyStr, role |-> EmptyStr, is_uso |-> FALSE]

BandDict ==
    [year |-> 2023, event_type |-> haru, band_name |-> EmptyStr,
     artist_name |-> ArtistX, song_name |-> SongY, description |-> EmptyStr,
     is_uso |-> FALSE]

PerfDict == [band_id |-> 1, member_id |-> 1, part |-> Gt]

ApiAddRow(t, data_dict) ==
    /\ RoomFor(t, 1)
    /\ Mutation([sheets EXCEPT ![t] = add_row(@, t, data_dict)])
    /\ last' = [op |-> "add_row", sheet |-> t, ret |-> "id",
                new_id |-> get_next_id(sheets[t])]
    /\ UNCHANGED <<temp_mems, filters, pc, loc>>

ApiBulkInsert(rows_list) ==
    /\ IF rows_list = << >>
       THEN UNCHANGED <<sheets, issued, cache>>
       ELSE /\ RoomFor("performances", Len(rows_list))
            /\ Mutation([sheets EXCEPT
                    !["performances"] = bulk_insert_performances(@, rows_list)])
    /\ last' = [op |-> "bulk_insert", sheet |-> "performances", ret |-> "none",
                n |-> Len(rows_list)]
    /\ UNCHANGED <<temp_mems, filters, pc, loc>>

ApiDeleteRow(t, target_id) ==
    /\ DeleteRowCall(cache, t, "delete_row", target_id)
    /\ UNCHANGED <<temp_mems, filters, pc, loc>>

NextApi ==
    \/ ApiAddRow("members", MemberDict)
    \/ ApiAddRow("bands", BandDict)
    \/ \E n \in 0..MaxPending : ApiBulkInsert([j \in 1..n |-> PerfDict])
    \/ \E t \in Tables, target_id \in 1..MaxId : ApiDeleteRow(t, target_id)

SpecApi == Init /\ [][NextApi]_vars

(***************************************************************************)
(* SpecConc: two sessions call add_row and bulk_insert_performances.  Each *)
(* call is two requests to the spreadsheet, the read of the id column      *)
(* (get_next_id) and the append, and the requests of the two sessions      *)
(* interleave; nothing in SheetManager holds a lock across them.           *)
(***************************************************************************)
DictOf(t) == IF t = "members" THEN MemberDict ELSE BandDict

\* add_row, line 67: new_id = self.get_next_id(sheet_name)
CGetNextId(s, t) ==
    /\ pc[s] = "idle"
    /\ get_next_id(sheets[t]) <= MaxId
    /\ loc' = [loc EXCEPT ![s] = [sheet |-> t, new_id |-> get_next_id(sheets[t])]]
    /\ pc' = [pc EXCEPT ![s] = "add_row"]
    /\ UNCHANGED <<sheets, issued, cache, temp_mems, filters, last>>

\* add_row, lines 68-80: the row is built with new_id and appended
CAppendRow(s) ==
    /\ pc[s] = "add_row"
    /\ Len(sheets[loc[s].sheet]) < MaxRows
    /\ Mutation([sheets EXCEPT ![loc[s].sheet] =
           Append(@, RowValues(loc[s].sheet, DictOf(loc[s].sheet), loc[s].new_id))])
    /\ pc' = [pc EXCEPT ![s] = "idle"]
    /\ loc' = [loc EXCEPT ![s] = << >>]
    /\ UNCHANGED <<temp_mems, filters, last>>

\* bulk_insert_performances, line 113: start_id = self.get_next_id(...)
CBulkGetNextId(s, rows_list) ==
    /\ pc[s] = "idle"
    /\ rows_list # << >>
    /\ get_next_id(sheets["performances"]) + Len(rows_list) - 1 <= MaxId
    /\ loc' = [loc EXCEPT ![s] =
           [sheet |-> "performances", rows |-> rows_list,
            new_id |-> get_next_id(sheets["performances"])]]
    /\ pc' = [pc EXCEPT ![s] = "bulk"]
    /\ UNCHANGED <<sheets, issued, cache, temp_mems, filters, last>>

\* bulk_insert_performances, lines 114-120: the rows are numbered and appended
CBulkAppend(s) ==
    /\ pc[s] = "bulk"
    /\ Len(sheets["performances"]) + Len(loc[s].rows) <= MaxRows
    /\ Mutation([sheets EXCEPT !["performances"] =
           @ \o BulkRows(loc[s].rows, loc[s].new_id)])
    /\ pc' = [pc EXCEPT ![s] = "idle"]
    /\ loc' = [loc EXCEPT ![s] = << >>]
    /\ UNCHANGED <<temp_mems, filters, last>>

\* delete_row by a session that is between calls
CDeleteRow(s, t, target_id) ==
    /\ pc[s] = "idle"
    /\ Find(sheets[t], target_id) # 0
    /\ Mutation([sheets EXCEPT ![t] = delete_row(@, target_id)])
    /\ UNCHANGED <<temp_mems, filters, last, pc, loc>>

NextConc ==
    \E s \in Sessions :
        \/ \E t \in {"members", "bands"} : CGetNextId(s, t)
        \/ CAppendRow(s)
        \/ \E n \in 1..MaxPending : CBulkGetNextId(s, [j \in 1..n |-> PerfDict])
        \/ CBulkAppend(s)
        \/ \E target_id \in 1..MaxId : CDeleteRow(s, "members", target_id)

SpecConc == Init /\ [][NextConc]_vars

(***************************************************************************)
(* SpecView: the search column and the two delete buttons over a workbook  *)
(* that holds two members, two bands and their performances.  The initial  *)
(* workbooks are built with add_row and the band save from registrations   *)
(* whose inputs are drawn from small sets.                                 *)
(***************************************************************************)
ViewMember(name, part, sub, circle) ==
    [name |-> name, year |-> 2023, part |-> part, sub_parts |-> Join(sub, Comma),
     circle |-> circle, role |-> EmptyStr, is_uso |-> FALSE]

ViewBand(year, is_uso) ==
    [year |-> year, event_type |-> haru, band_name |-> EmptyStr,
     artist_name |-> ArtistX, song_name |-> SongY, description |-> EmptyStr,
     is_uso |-> is_uso]

Pending(id, part) == [id |-> id, name |-> EmptyStr, part |-> part]

\* a Band row whose is_uso cell is empty (a row entered in the sheet by hand):
\* add_row writes "" under a header the dict lacks
ViewBandNoUso(year) ==
    [year |-> year, event_type |-> haru, band_name |-> EmptyStr,
     artist_name |-> ArtistX, song_name |-> SongY, description |-> EmptyStr]

\* member 1 and 2 registered, then band 1 saved with both and band 2 with member 2
ViewWorkbook(sub1, part2, uso1, perf_part1) ==
    LET wb0 == [t \in Tables |-> << >>]
        wb1 == [wb0 EXCEPT !["members"] =
                   add_row(add_row(@, "members",
                                   ViewMember(NameA, Dr, sub1, keion)),
                           "members", ViewMember(NameB, part2, << >>, EmptyStr))]
        wb2 == BandSaved(wb1, IF uso1 = "empty" THEN ViewBandNoUso(2023)
                              ELSE ViewBand(2023, uso1 = "TRUE"),
                         <<Pending(1, perf_part1), Pending(2, Dr)>>)
    IN BandSaved(wb2, ViewBand(2024, FALSE), <<Pending(2, Dr)>>)

InitView ==
    /\ \E sub1 \in {<< >>, <<GtVo>>, <<Dr, Gt>>}, part2 \in {Gt, Dr},
          uso1 \in {"TRUE", "FALSE", "empty"}, perf_part1 \in {Dr, Gt} :
          sheets = ViewWorkbook(sub1, part2, uso1, perf_part1)
    /\ issued = [t \in Tables |-> {sheets[t][i].id : i \in DOMAIN sheets[t]}]
    /\ cache = NoCache
    /\ temp_mems = << >>
    /\ filters = DefaultFilters
    /\ last = [op |-> "start", ret |-> "none"]
    /\ pc = [s \in Sessions |-> "idle"]
    /\ loc = [s \in Sessions |-> << >>]

FilterInputs ==
    [f_uso : BOOLEAN, f_year : {0, 2023}, f_event : {subete, haru},
     f_kw : {EmptyStr, ArtistX}, f_part : {subete, Gt},
     f_circle : {subete, keion}]

NextView ==
    \/ \E f \in FilterInputs : Search(f, TRUE)
    \/ \E i \in 1..2 : MemberDelete(ADMIN_PASSWORD, i, TRUE)
    \/ \E i \in 1..2 : BandDelete(ADMIN_PASSWORD, i, TRUE)

SpecView == InitView /\ [][NextView]_vars

(***************************************************************************)
(* Claims.                                                                 *)
(***************************************************************************)
Ids(ws) == {ws[i].id : i \in DOMAIN ws}

\* the frame load_all_data returns for a worksheet
FrameOf(frames, t) ==
    CASE t = "members" -> frames.mem
      [] t = "bands" -> frames.band
      [] t = "performances" -> frames.perf

\* C1: once an insert has assigned an id in a table, no later insert into that
\* table is assigned the same id, even after the row holding it was deleted.
C1_IdsNeverReused ==
    [][\A t \in Tables :
          Len(sheets'[t]) > Len(sheets[t]) =>
              AppendedIds(sheets[t], sheets'[t]) \cap issued[t] = {}]_vars

\* the step is an add_row call on worksheet t that returned an id
AddRowStep(t) ==
    \/ t = "members" /\ last'.op = "member_save" /\ last'.ret \in {"saved", "warned"}
    \/ t = "bands" /\ last'.op = "band_save" /\ last'.ret = "saved"

\* C2: add_row adds exactly one row to its table; the id stored in the row and
\* returned is (the greatest id in the table before the call) + 1, or 1 when
\* the table held none; a read of the table afterwards shows the previous rows
\* and that one new row.
C2_AddRowNextId ==
    [][\A t \in {"members", "bands"} :
          AddRowStep(t) =>
              LET old == sheets[t]
                  new == sheets'[t]
                  before == ReadAll(sheets, TRUE)
                  after == load_all_data(cache', sheets', TRUE)
              IN /\ Len(new) = Len(old) + 1
                 /\ SubSeq(new, 1, Len(old)) = old
                 /\ new[Len(new)].id = last'.new_id
                 /\ \A i \in DOMAIN old : old[i].id < last'.new_id
                 /\ \/ old = << >> /\ last'.new_id = 1
                    \/ last'.new_id - 1 \in Ids(old)
                 /\ Len(FrameOf(after, t)) = Len(FrameOf(before, t)) + 1
                 /\ SubSeq(FrameOf(after, t), 1, Len(old)) = FrameOf(before, t)
                 /\ FrameOf(after, t)[Len(new)].id = last'.new_id]_vars

\* a member was saved with id 3 into a table that had lost its first row, and
\* the first band got id 1
C2_Witness ==
    /\ last.op = "member_save"
    /\ last.ret \in {"saved", "warned"}
    /\ last.new_id = 3
    /\ Ids(sheets["members"]) = {2, 3}
    /\ \E i \in DOMAIN sheets["bands"] : sheets["bands"][i].id = 1

\* C3: in every reachable state no two rows of a table carry the same id, also
\* when two sessions' add_row / bulk_insert_performances steps interleave.
C3_UniqueIds ==
    \A t \in Tables :
        \A i, j \in DOMAIN sheets[t] : i # j => sheets[t][i].id # sheets[t][j].id

C6_MemberSaveInserts ==
    [][(last'.op = "member_save" /\ last'.ret # "error") =>
          Len(sheets'["members"]) = Len(sheets["members"]) + 1]_vars

\* C7: every mutation that changes a stored cell or row clears the read cache
\* before it finishes, an update_row that stops partway included.
C7_MutationClearsCache == [][sheets' # sheets => cache' = NoCache]_vars

\* C8: delete_row(table, id) removes exactly the row of the table with that id
\* and leaves every other row of every table as it was; when no row has the id
\* it returns False and no table changes.
C8_DeleteRow ==
    [][last'.op = "delete_row" =>
          LET t == last'.sheet
              old == sheets[t]
          IN IF \E i \in DOMAIN old : old[i].id = last'.id
             THEN /\ last'.ret = "True"
                  /\ \E i \in DOMAIN old :
                        /\ old[i].id = last'.id
                        /\ sheets' = [sheets EXCEPT ![t] = RemoveAt(old, i)]
             ELSE /\ last'.ret = "False"
                  /\ sheets' = sheets]_vars

\* a member was deleted and a Performance row that references it is still stored
C8_Witness ==
    /\ last.op = "delete_row"
    /\ last.sheet = "members"
    /\ last.ret = "True"
    /\ \E i \in DOMAIN sheets["performances"] :
          sheets["performances"][i].member_id = last.id

\* text.split(sep) for a one-character separator
RECURSIVE Split(_, _)
Split(text, sep) ==
    IF \E i \in DOMAIN text : text[i] = sep
    THEN LET i == CHOOSE i \in DOMAIN text :
                     text[i] = sep /\ \A j \in 1..(i - 1) : text[j] # sep
         IN <<SubSeq(text, 1, i - 1)>> \o Split(SubSeq(text, i + 1, Len(text)), sep)
    ELSE <<text>>

\* the frames a run loads in the current state, its join, and the view before
\* the part filter
LoadedNow == Loaded(TRUE)
FullNow == df_full(TRUE)
ViewNow == view_df(TRUE)
BeforePart ==
    KeywordFilter(
        EventFilter(YearFilter(UsoFilter(FullNow, filters.f_uso), filters.f_year),
                    filters.f_event),
        filters.f_kw)

ViewNow_Part == PartFilter(BeforePart, filters.f_part)

\* C4: every Performance row whose member_id matches no Member or whose band_id
\* matches no Band (the members or bands table emptied by deletion included)
\* has a row in the join, with the sentinel text in the fields of the missing
\* side and the fields of the side that exists kept.
C4_DanglingRowKept ==
    \A i \in DOMAIN LoadedNow.perf :
        LET p == LoadedNow.perf[i]
            ms == SelectSeq(LoadedNow.mem, LAMBDA m : m.id = p.member_id)
            bs == SelectSeq(LoadedNow.band, LAMBDA b : b.id = p.band_id)
        IN (ms = << >> \/ bs = << >>) =>
              \E k \in DOMAIN FullNow :
                  LET r == FullNow[k]
                  IN /\ r.id_x = p.id
                     /\ IF ms = << >> THEN r.name_m = fumei
                        ELSE r.name_m = ms[1].name
                     /\ IF bs = << >>
                        THEN /\ r.artist_name = fumei
                             /\ r.song_name = fumei
                             /\ r.description = EmptyStr
                        ELSE /\ r.artist_name = bs[1].artist_name
                             /\ r.song_name = bs[1].song_name

\* the row matches part p exactly: main part, an element of the sub-parts, or
\* the performance's part
ExactPartMatch(r, p) ==
    \/ r.part_m = p
    \/ r.sub_parts_m # NaNStr /\ p \in Range(Split(r.sub_parts_m, ","))
    \/ r.part = p

\* C9: with a part filter p, a band's rows are retained iff some row of the band
\* among the rows that passed the earlier filters has main part p, or p as an
\* element of the sub-parts, or performance part p.
C9_PartFilterExact ==
    filters.f_part # subete =>
        \A i \in DOMAIN BeforePart :
            LET b == BeforePart[i].band_id
            IN (\E j \in DOMAIN ViewNow_Part : ViewNow_Part[j].band_id = b)
               <=> \E j \in DOMAIN BeforePart :
                      /\ BeforePart[j].band_id = b
                      /\ ExactPartMatch(BeforePart[j], filters.f_part)

\* C10: if one row of the join with band_id B survives the whole filter chain,
\* every row of the join with band_id B survives it.
C10_BandGroupKept ==
    \A i \in DOMAIN FullNow :
        (\E j \in DOMAIN ViewNow : ViewNow[j].band_id = FullNow[i].band_id)
            => \E j \in DOMAIN ViewNow : ViewNow[j] = FullNow[i]

\* a part filter is set and the view shows a row that does not match it itself
C10_Witness ==
    /\ filters.f_part = Gt
    /\ \E j \in DOMAIN ViewNow : ~PartMatch(ViewNow[j], Gt)

(***************************************************************************)
(* main, lines 520-523: the band list.  groupby drops the rows with a NaN  *)
(* in one of the keys (dropna defaults to True), joins mem_disp of a group *)
(* in row order, and sort_values orders the groups by (year_b, band_id)    *)
(* descending.                                                             *)
(***************************************************************************)
CommaSpace == <<",", " ">>

GroupKey(r) ==
    [band_id |-> r.band_id, year_b |-> r.year_b, event_type |-> r.event_type,
     artist_name |-> r.artist_name, song_name |-> r.song_name,
     description |-> r.description]

KeyHasNaN(r) ==
    \/ r.band_id = NaNNum
    \/ r.year_b = NaNNum
    \/ r.event_type = NaNStr
    \/ r.artist_name = NaNStr
    \/ r.song_name = NaNStr
    \/ r.description = NaNStr

\* (year_b, band_id) of a is not below that of b
NotBelow(a, b) ==
    \/ a.year_b > b.year_b
    \/ a.year_b = b.year_b /\ a.band_id >= b.band_id

RECURSIVE SortDesc(_)
SortDesc(S) ==
    IF S = {} THEN << >>
    ELSE LET top == CHOOSE a \in S : \A b \in S : NotBelow(a, b)
         IN <<top>> \o SortDesc(S \ {top})

grouped(view) ==
    LET kept == SelectSeq(view, LAMBDA r : ~KeyHasNaN(r))
        keys == {GroupKey(kept[i]) : i \in DOMAIN kept}
        rows(k) == SelectSeq(kept, LAMBDA r : GroupKey(r) = k)
        summary(k) ==
            k @@ [mem_disp |-> Join([i \in DOMAIN rows(k) |-> AsStr(rows(k)[i].mem_disp)],
                                    CommaSpace)]
    IN SortDesc({summary(k) : k \in keys})

GroupedNow == grouped(ViewNow)

\* the stored Band with this id is fictional: its is_uso cell holds TRUE
Fictional(band_id) ==
    \E i \in DOMAIN sheets["bands"] :
        /\ sheets["bands"][i].id = band_id
        /\ sheets["bands"][i].is_uso = CellTRUE

\* the criteria other than the fictional one
OtherCriteria(full) ==
    CircleFilter(
        PartFilter(
            KeywordFilter(EventFilter(YearFilter(full, filters.f_year), filters.f_event),
                          filters.f_kw),
            filters.f_part),
        filters.f_circle)

\* C11: without "include fictional" the filtered rows are the rows meeting the
\* other criteria whose Band is not stored as fictional (a Band with an empty
\* is_uso cell counts as not fictional and stays), and no summary of the band
\* list belongs to a fictional Band; with "include fictional" the filtered rows
\* are all the rows meeting the other criteria.
C11_FictionalFilter ==
    IF filters.f_uso
    THEN ViewNow = OtherCriteria(FullNow)
    ELSE /\ ViewNow = SelectSeq(OtherCriteria(FullNow),
                                LAMBDA r : ~Fictional(r.band_id))
         /\ \A i \in DOMAIN ViewNow : ~Fictional(ViewNow[i].band_id)
         /\ \A i \in DOMAIN GroupedNow : ~Fictional(GroupedNow[i].band_id)

\* a fictional Band has rows in the join, "include fictional" is off and the
\* view still shows rows of another Band
C11_Witness ==
    /\ ~filters.f_uso
    /\ last.op = "search"
    /\ \E i \in DOMAIN FullNow : Fictional(FullNow[i].band_id)
    /\ ViewNow # << >>

(***************************************************************************)
(* SpecPending: a band-registration session.  Members are registered, put  *)
(* on the pending list with a part chosen in the part select box, the list *)
(* is cleared, and the band is saved.                                      *)
(***************************************************************************)
NextPending ==
    \/ \E name \in {NameA, NameB} :
          MemberSave(name, 2023, Gt, << >>, EmptyStr, EmptyStr, FALSE, TRUE)
    \/ \E i \in 1..MaxRows, sel_part \in {Gt, Dr} : AddToList(i, sel_part, TRUE)
    \/ ClearList(TRUE)
    \/ \E r_artist \in Artists :
          BandSave(2023, haru, r_artist, SongY, EmptyStr, FALSE, TRUE)

SpecPending == Init /\ [][NextPending]_vars

\* no two entries of the list have the same id
DistinctIds(list) ==
    \A i, j \in DOMAIN list : i # j => list[i].id # list[j].id

\* C12: the pending list never holds a member id twice, whatever part is chosen
\* when a member is added; the Performance rows one band save appends have
\* pairwise distinct member_id; after a successful save the list is empty.
C12_PendingDistinct ==
    [][/\ DistinctIds(temp_mems)
       /\ DistinctIds(temp_mems')
       /\ (last'.op = "band_save" /\ last'.ret = "saved") =>
             LET old == Len(sheets["performances"])
                 new == SubSeq(sheets'["performances"], old + 1,
                               Len(sheets'["performances"]))
             IN /\ Len(new) = Len(temp_mems)
                /\ \A i, j \in DOMAIN new : i # j => new[i].member_id # new[j].member_id
                /\ temp_mems' = << >>]_vars

\* a member already on the list was chosen again, with another part, and the
\* add was refused
C12_Witness ==
    /\ last.op = "add_to_list"
    /\ last.ret = "error"
    /\ Len(temp_mems) = 2
    /\ \E j \in DOMAIN temp_mems : temp_mems[j].part = Dr

\* the band_ids of the filtered rows
ViewBandIds == {ViewNow[i].band_id : i \in DOMAIN ViewNow}

\* the filtered rows of one band, in row order
RowsOfBand(b) == SelectSeq(ViewNow, LAMBDA r : r.band_id = b)

\* C13: the band list holds exactly one summary for every band_id of the
\* filtered rows, a band_id whose Band no longer exists included, and none for
\* any other band_id; a summary's member text is the member display strings of
\* all filtered rows of its band, in row order, joined with ", "; the summaries
\* are in descending order of (band year, band_id).
C13_OneSummaryPerBand ==
    /\ \A b \in ViewBandIds :
          /\ Cardinality({i \in DOMAIN GroupedNow : GroupedNow[i].band_id = b}) = 1
          /\ \A i \in DOMAIN GroupedNow :
                GroupedNow[i].band_id = b =>
                   GroupedNow[i].mem_disp =
                      Join([k \in DOMAIN RowsOfBand(b) |-> RowsOfBand(b)[k].mem_disp],
                           <<",", " ">>)
    /\ \A i \in DOMAIN GroupedNow : GroupedNow[i].band_id \in ViewBandIds
    /\ \A i, j \in DOMAIN GroupedNow :
          i < j => \/ GroupedNow[i].year_b > GroupedNow[j].year_b
                   \/ /\ GroupedNow[i].year_b = GroupedNow[j].year_b
                      /\ GroupedNow[i].band_id > GroupedNow[j].band_id

====
